---- MODULE Spec2Model ----
(***************************************************************************)
(* Model of the three puzzle classes of the Puzzle-Solver repository:     *)
(*   GridPegSolitairePuzzle  (grid_peg_solitaire_puzzle.py)                *)
(*   MNPuzzle                (mn_puzzle.py)                                *)
(*   WordLadderPuzzle        (word_ladder_puzzle.py)                       *)
(*                                                                         *)
(* Python lists are mutable objects: a list of rows holds references.     *)
(* The rows of a peg grid therefore live in a heap (variable lists) and   *)
(* a grid is a sequence of row references, so that copy.deepcopy and the  *)
(* item assignments of row_configs / col_configs act as they do in the    *)
(* interpreter.  Sets handed to a constructor are kept by reference too   *)
(* (variable sets).  Tuples and strings are immutable and are values.     *)
(* Indices are 0-based as in the source; a sequence s is read as s[i+1].  *)
(***************************************************************************)
EXTENDS Integers, Sequences, FiniteSets, TLC

VARIABLES
    kind,     \* which class this run exercises: "peg", "mn" or "wl"
    args,     \* the constructor arguments handed in by the caller
    self,     \* the receiver (a puzzle object), NoObject before construction
    lists,    \* heap of list objects (rows of peg grids): id -> sequence
    sets,     \* heap of set objects (marker sets, dictionaries): id -> set
    call,     \* the last operation performed and what it returned
    depth,    \* number of moves taken from the root configuration
    root      \* the constructor arguments of the root, as values

vars == <<kind, args, self, lists, sets, call, depth, root>>

\* ------------------------------------------------------------------ bounds
MaxRows == 3
MaxCols == 3
MaxHoles == 1
MaxWordLen == 2
MaxDictSize == 3
MaxDepth == 2

\* ----------------------------------------------------------- common values
NoObject == [type |-> "NoneType"]
AssertionError == [type |-> "AssertionError"]

Range(s) == {s[i] : i \in 1..Len(s)}

RECURSIVE SumSeq(_)
SumSeq(s) == IF s = <<>> THEN 0 ELSE Head(s) + SumSeq(Tail(s))

\* all(...) over a list of booleans
All(bs) == \A k \in 1..Len(bs) : bs[k]

\* ==================================================== GridPegSolitairePuzzle

\* value of a list of row references under heap h
Deref(h, refs) == [k \in 1..Len(refs) |-> h[refs[k]]]

\* index of the first occurrence of refs[k] in refs
FirstAt(refs, k) == CHOOSE a \in 1..k :
                        /\ refs[a] = refs[k]
                        /\ \A b \in 1..(a-1) : refs[b] # refs[k]

\* number of distinct references among refs[1..FirstAt(refs,k)]
MemoRank(refs, k) ==
    Cardinality({a \in 1..FirstAt(refs, k) : FirstAt(refs, a) = a})

\* copy.deepcopy of a list of rows: a new row object per distinct row object
\* met (the memo keeps rows that are one object one object in the copy);
\* the cells are immutable strings.  Returns the new heap and the new list.
\* (variant: the grid is not copied, new_marker is self._marker itself)
deepcopy_shallow(h, refs) == [heap |-> h, list |-> refs]

deepcopy(h, refs) ==
    LET n == Len(h)
        d == Cardinality(Range(refs))
    IN  [heap |-> [id \in 1..(n + d) |->
                      IF id <= n THEN h[id]
                      ELSE h[refs[CHOOSE k \in 1..Len(refs) :
                                      MemoRank(refs, k) = id - n]]],
         list |-> [k \in 1..Len(refs) |-> n + MemoRank(refs, k)]]

\* new_marker[i][j] = v
SetItem(h, refs, i, j, v) == [h EXCEPT ![refs[i+1]][j+1] = v]

\* self._marker[i][j]
Item(h, refs, i, j) == h[refs[i+1]][j+1]

PegMarkers == {"*", ".", "#"}

\* (variant: the marker set itself is not checked)
Peg_init_ok_unchecked_set(h, s, marker, marker_set) ==
    /\ Len(marker) > 0
    /\ All([k \in 1..(Len(marker) - 1) |->
               Len(h[marker[k+1]]) = Len(h[marker[1]])])
    /\ All([k \in 1..Len(marker) |->
               All([c \in 1..Len(h[marker[k]]) |->
                       h[marker[k]][c] \in s[marker_set]])])

\* the four assertions on the content of marker and marker_set
Peg_init_ok(h, s, marker, marker_set) ==
    /\ Len(marker) > 0
    /\ All([k \in 1..(Len(marker) - 1) |->
               Len(h[marker[k+1]]) = Len(h[marker[1]])])
    /\ All([k \in 1..Len(marker) |->
               All([c \in 1..Len(h[marker[k]]) |->
                       h[marker[k]][c] \in s[marker_set]])])
    /\ \A x \in s[marker_set] : x = "*" \/ x = "." \/ x = "#"

\* GridPegSolitairePuzzle(marker, marker_set): the new object, which keeps
\* both arguments by reference, or the AssertionError raised
Peg_init(h, s, marker, marker_set) ==
    IF Peg_init_ok(h, s, marker, marker_set)
    THEN [type |-> "GridPegSolitairePuzzle",
          marker |-> marker, marker_set |-> marker_set]
    ELSE AssertionError

\* the state threaded through the loops of row_configs / col_configs: the
\* list built so far, the heap, and whether a constructor call has raised
NoConfigs(h) == [configs |-> <<>>, heap |-> h, err |-> FALSE]

\* (variant: the cell b is marked unused instead of empty)
Peg_jump_marks_unused(acc, s, this, e, a, b) ==
    LET cp  == deepcopy(acc.heap, this.marker)
        h1  == SetItem(cp.heap, cp.list, e[1], e[2], "*")
        h2  == SetItem(h1, cp.list, a[1], a[2], ".")
        h3  == SetItem(h2, cp.list, b[1], b[2], "#")
        new == Peg_init(h3, s, cp.list, this.marker_set)
    IN  [configs |-> Append(acc.configs, new), heap |-> h3,
         err |-> new.type # "GridPegSolitairePuzzle"]


\* the body of one "if" of row_configs / col_configs: copy the grid, put a
\* peg on the empty cell e, empty the cells a and b, construct, append
Peg_jump(acc, s, this, e, a, b) ==
    LET cp  == deepcopy(acc.heap, this.marker)
        h1  == SetItem(cp.heap, cp.list, e[1], e[2], "*")
        h2  == SetItem(h1, cp.list, a[1], a[2], ".")
        h3  == SetItem(h2, cp.list, b[1], b[2], ".")
        new == Peg_init(h3, s, cp.list, this.marker_set)
    IN  [configs |-> Append(acc.configs, new), heap |-> h3,
         err |-> new.type # "GridPegSolitairePuzzle"]

\* (variant: j - 2 > 0)
Peg_can_left_strict(h, this, i, j) ==
    /\ j - 2 > 0
    /\ Item(h, this.marker, i, j - 2) = "*"
    /\ Item(h, this.marker, i, j - 1) = "*"

\* lines 117-118: j - 2 >= 0 and marker[i][j-2] == "*" and marker[i][j-1] == "*"
Peg_can_left(h, this, i, j) ==
    /\ j - 2 >= 0
    /\ Item(h, this.marker, i, j - 2) = "*"
    /\ Item(h, this.marker, i, j - 1) = "*"

\* lines 125-126: j + 2 < rows and marker[i][j+2] == "*" and marker[i][j+1] == "*"
Peg_can_right(h, this, i, j, rows) ==
    /\ j + 2 < rows
    /\ Item(h, this.marker, i, j + 2) = "*"
    /\ Item(h, this.marker, i, j + 1) = "*"

\* lines 162-163: i - 2 >= 0 and marker[i-2][j] == "*" and marker[i-1][j] == "*"
Peg_can_up(h, this, i, j) ==
    /\ i - 2 >= 0
    /\ Item(h, this.marker, i - 2, j) = "*"
    /\ Item(h, this.marker, i - 1, j) = "*"

\* lines 170-171: i + 2 < cols and marker[i+2][j] == "*" and marker[i+1][j] == "*"
Peg_can_down(h, this, i, j, cols) ==
    /\ i + 2 < cols
    /\ Item(h, this.marker, i + 2, j) = "*"
    /\ Item(h, this.marker, i + 1, j) = "*"

\* lines 116-132, the body of the two loops of row_configs at cell (i, j)
Peg_row_cell(acc, s, this, i, j, rows) ==
    IF Item(acc.heap, this.marker, i, j) # "." THEN acc
    ELSE LET a1 == IF Peg_can_left(acc.heap, this, i, j)
                   THEN Peg_jump(acc, s, this, <<i, j>>, <<i, j-2>>, <<i, j-1>>)
                   ELSE acc
         IN  IF a1.err THEN a1
             ELSE IF Peg_can_right(a1.heap, this, i, j, rows)
                  THEN Peg_jump(a1, s, this, <<i, j>>, <<i, j+2>>, <<i, j+1>>)
                  ELSE a1

\* lines 161-177, the body of the two loops of col_configs at cell (i, j)
Peg_col_cell(acc, s, this, i, j, cols) ==
    IF Item(acc.heap, this.marker, i, j) # "." THEN acc
    ELSE LET a1 == IF Peg_can_up(acc.heap, this, i, j)
                   THEN Peg_jump(acc, s, this, <<i, j>>, <<i-2, j>>, <<i-1, j>>)
                   ELSE acc
         IN  IF a1.err THEN a1
             ELSE IF Peg_can_down(a1.heap, this, i, j, cols)
                  THEN Peg_jump(a1, s, this, <<i, j>>, <<i+1, j>>, <<i+2, j>>)
                  ELSE a1

\* for i in range(cols): for j in range(rows): ...   (k = i * rows + j)
RECURSIVE Peg_row_loop(_, _, _, _, _, _)
Peg_row_loop(acc, s, this, cols, rows, k) ==
    IF k >= cols * rows \/ acc.err THEN acc
    ELSE Peg_row_loop(Peg_row_cell(acc, s, this, k \div rows, k % rows, rows),
                      s, this, cols, rows, k + 1)

RECURSIVE Peg_col_loop(_, _, _, _, _, _)
Peg_col_loop(acc, s, this, cols, rows, k) ==
    IF k >= cols * rows \/ acc.err THEN acc
    ELSE Peg_col_loop(Peg_col_cell(acc, s, this, k \div rows, k % rows, cols),
                      s, this, cols, rows, k + 1)

Peg_row_configs(h, s, this, cols, rows) ==
    Peg_row_loop(NoConfigs(h), s, this, cols, rows, 0)

Peg_col_configs(h, s, this, cols, rows) ==
    Peg_col_loop(NoConfigs(h), s, this, cols, rows, 0)

\* extensions(): m = len(marker), n = len(marker[0]),
\* row_configs(m, n) + col_configs(m, n)
Peg_extensions(h, s, this) ==
    LET m == Len(this.marker)
        n == Len(h[this.marker[1]])
        r == Peg_row_configs(h, s, this, m, n)
        c == Peg_col_configs(r.heap, s, this, m, n)
    IN  IF r.err THEN r
        ELSE [configs |-> r.configs \o c.configs, heap |-> c.heap, err |-> c.err]

\* self._marker[0] and self._marker[i][j] for i < m, j < n = len(marker[0])
\* can be read: there is a first row and no row is shorter than it
\* (otherwise the read raises IndexError)
Peg_indexable(h, this) ==
    /\ Len(this.marker) > 0
    /\ \A k \in 1..Len(this.marker) : Len(h[this.marker[k]]) >= Len(h[this.marker[1]])

\* is_solved(): count the cells holding "*", compare the count with 1
Peg_count(h, this) ==
    LET m == Len(this.marker)
        n == Len(h[this.marker[1]])
    IN  SumSeq([k \in 1..(m * n) |->
                   IF Item(h, this.marker, (k-1) \div n, (k-1) % n) = "*"
                   THEN 1 ELSE 0])

\* (variant: count <= 1)
Peg_is_solved_at_most_one(h, this) == Peg_count(h, this) <= 1

Peg_is_solved(h, this) == Peg_count(h, this) = 1

\* the outcome of a comparison: what it returns, or what it raises
Returned(b) == [result |-> b, raised |-> "None"]
AttributeError == [result |-> FALSE, raised |-> "AttributeError"]

HasAttrs(o, names) == names \subseteq DOMAIN o

\* (variant: _marker_set is not compared)
Peg_eq_grid_only(h, s, this, other) ==
    IF this.type # other.type THEN Returned(FALSE)
    ELSE IF ~HasAttrs(other, {"marker"}) THEN AttributeError
    ELSE Returned(Deref(h, this.marker) = Deref(h, other.marker))

\* __eq__: same type, equal _marker (lists compare by content), equal
\* _marker_set; "and" stops at the first false operand, so an attribute of
\* other is read only once the types are equal
Peg_eq(h, s, this, other) ==
    IF this.type # other.type THEN Returned(FALSE)
    ELSE IF ~HasAttrs(other, {"marker"}) THEN AttributeError
    ELSE IF Deref(h, this.marker) # Deref(h, other.marker) THEN Returned(FALSE)
    ELSE IF ~HasAttrs(other, {"marker_set"}) THEN AttributeError
    ELSE Returned(s[this.marker_set] = s[other.marker_set])

\* ================================================================== MNPuzzle

\* a Python tuple and a Python list of the same items are different values
Tuple(items) == [t |-> "tuple", v |-> items]
List(items) == [t |-> "list", v |-> items]

\* (variant: the rows of to_grid are not checked)
MN_init_ok_from_grid_only(from_grid, to_grid) ==
    /\ Len(from_grid.v) > 0
    /\ All([k \in 1..Len(from_grid.v) |->
               Len(from_grid.v[k].v) = Len(from_grid.v[1].v)])


\* MNPuzzle(from_grid, to_grid): three assertions, then n, m and the two
\* grids are stored; to_grid[0] is only evaluated for a row of to_grid
MN_init_ok(from_grid, to_grid) ==
    /\ Len(from_grid.v) > 0
    /\ All([k \in 1..Len(from_grid.v) |->
               Len(from_grid.v[k].v) = Len(from_grid.v[1].v)])
    /\ All([k \in 1..Len(to_grid.v) |->
               Len(to_grid.v[k].v) = Len(to_grid.v[1].v)])

MN_init(from_grid, to_grid) ==
    IF MN_init_ok(from_grid, to_grid)
    THEN [type |-> "MNPuzzle",
          n |-> Len(from_grid.v), m |-> Len(from_grid.v[1].v),
          from_grid |-> from_grid, to_grid |-> to_grid]
    ELSE AssertionError

\* index_of_space(): the first (i, j) in row-major order with
\* from_grid[i][j] == "*"; the function returns None when the loops end
None == <<>>

\* (variant: for i in range(1, self.n))
MN_index_of_space_from_1(this) ==
    LET hits == {k \in this.m..(this.n * this.m - 1) :
                    this.from_grid.v[(k \div this.m) + 1].v[(k % this.m) + 1] = "*"}
    IN  IF hits = {} THEN None
        ELSE LET k == CHOOSE a \in hits : \A b \in hits : a <= b
             IN  <<k \div this.m, k % this.m>>

MN_index_of_space(this) ==
    LET hits == {k \in 0..(this.n * this.m - 1) :
                    this.from_grid.v[(k \div this.m) + 1].v[(k % this.m) + 1] = "*"}
    IN  IF hits = {} THEN None
        ELSE LET k == CHOOSE a \in hits : \A b \in hits : a <= b
             IN  <<k \div this.m, k % this.m>>

\* convert_tuple(): deepcopy of the (immutable) grid, then a list of lists,
\* each row a new list object
MN_convert_tuple(this) ==
    List([k \in 1..Len(this.from_grid.v) |-> List(this.from_grid.v[k].v)])

\* convert_list(puzzle_list): a tuple of tuples of the same items
MN_convert_list(puzzle_list) ==
    Tuple([k \in 1..Len(puzzle_list.v) |-> Tuple(puzzle_list.v[k].v)])

\* (variant: the two assignments in the other order)
MN_slide_reordered(new_grid, a, b, c, d) ==
    LET g1 == [new_grid EXCEPT !.v[c+1].v[d+1] = "*"]
    IN  [g1 EXCEPT !.v[a+1].v[b+1] = g1.v[c+1].v[d+1]]

\* (variant: the blank is not written to the cell the tile came from)
MN_slide_no_blank(new_grid, a, b, c, d) ==
    [new_grid EXCEPT !.v[a+1].v[b+1] = new_grid.v[c+1].v[d+1]]


\* new_grid[a][b] = new_grid[c][d]; new_grid[c][d] = "*"
MN_slide(new_grid, a, b, c, d) ==
    LET g1 == [new_grid EXCEPT !.v[a+1].v[b+1] = new_grid.v[c+1].v[d+1]]
    IN  [g1 EXCEPT !.v[c+1].v[d+1] = "*"]

\* (variant: the successor is given the receiver's current grid as its goal)
MN_move_goal_is_current(acc, this, a, b, c, d) ==
    LET new == MN_init(MN_convert_list(MN_slide(MN_convert_tuple(this), a, b, c, d)),
                       this.from_grid)
    IN  [configs |-> Append(acc.configs, new),
         raised |-> IF new.type = "MNPuzzle" THEN "None" ELSE new.type]


\* one "if" body of row_configs / col_configs: copy, slide, construct, append
MN_move(acc, this, a, b, c, d) ==
    LET new == MN_init(MN_convert_list(MN_slide(MN_convert_tuple(this), a, b, c, d)),
                       this.to_grid)
    IN  [configs |-> Append(acc.configs, new),
         raised |-> IF new.type = "MNPuzzle" THEN "None" ELSE new.type]

\* (variant: m_value - 1 > 0)
MN_row_configs_strict(this) ==
    LET empty_index == MN_index_of_space(this)
        n_value == empty_index[1]
        m_value == empty_index[2]
        start == [configs |-> <<>>, raised |-> "None"]
    IN  IF empty_index = None THEN [configs |-> <<>>, raised |-> "TypeError"]
        ELSE LET a1 == IF m_value + 1 < this.m
                       THEN MN_move(start, this, n_value, m_value, n_value, m_value + 1)
                       ELSE start
             IN  IF a1.raised # "None" THEN a1
                 ELSE IF m_value - 1 > 0
                      THEN MN_move(a1, this, n_value, m_value, n_value, m_value - 1)
                      ELSE a1


\* row_configs(): blank moves right (m_value + 1 < m), then left (m_value - 1 >= 0)
MN_row_configs(this) ==
    LET empty_index == MN_index_of_space(this)
        n_value == empty_index[1]
        m_value == empty_index[2]
        start == [configs |-> <<>>, raised |-> "None"]
    IN  IF empty_index = None THEN [configs |-> <<>>, raised |-> "TypeError"]
        ELSE LET a1 == IF m_value + 1 < this.m
                       THEN MN_move(start, this, n_value, m_value, n_value, m_value + 1)
                       ELSE start
             IN  IF a1.raised # "None" THEN a1
                 ELSE IF m_value - 1 >= 0
                      THEN MN_move(a1, this, n_value, m_value, n_value, m_value - 1)
                      ELSE a1

\* (variant: n_value - 1 > 0)
MN_col_configs_strict(this) ==
    LET empty_index == MN_index_of_space(this)
        n_value == empty_index[1]
        m_value == empty_index[2]
        start == [configs |-> <<>>, raised |-> "None"]
    IN  IF empty_index = None THEN [configs |-> <<>>, raised |-> "TypeError"]
        ELSE LET a1 == IF n_value + 1 < this.n
                       THEN MN_move(start, this, n_value, m_value, n_value + 1, m_value)
                       ELSE start
             IN  IF a1.raised # "None" THEN a1
                 ELSE IF n_value - 1 > 0
                      THEN MN_move(a1, this, n_value, m_value, n_value - 1, m_value)
                      ELSE a1

\* col_configs(): blank moves down (n_value + 1 < n), then up (n_value - 1 >= 0)
MN_col_configs(this) ==
    LET empty_index == MN_index_of_space(this)
        n_value == empty_index[1]
        m_value == empty_index[2]
        start == [configs |-> <<>>, raised |-> "None"]
    IN  IF empty_index = None THEN [configs |-> <<>>, raised |-> "TypeError"]
        ELSE LET a1 == IF n_value + 1 < this.n
                       THEN MN_move(start, this, n_value, m_value, n_value + 1, m_value)
                       ELSE start
             IN  IF a1.raised # "None" THEN a1
                 ELSE IF n_value - 1 >= 0
                      THEN MN_move(a1, this, n_value, m_value, n_value - 1, m_value)
                      ELSE a1

\* extensions(): row_configs() + col_configs()
MN_extensions(this) ==
    LET r == MN_row_configs(this)
        c == MN_col_configs(this)
    IN  IF r.raised # "None" THEN r
        ELSE [configs |-> r.configs \o c.configs, raised |-> c.raised]

\* (variant: only the places of the blank are compared)
MN_is_solved_blank_only(this) ==
    LET stars(g) == {c \in UNION {{<<i, j>> : j \in 1..Len(g.v[i].v)} : i \in 1..Len(g.v)} :
                        g.v[c[1]].v[c[2]] = "*"}
    IN  stars(this.from_grid) = stars(this.to_grid)


\* is_solved(): from_grid == to_grid
MN_is_solved(this) == this.from_grid = this.to_grid

\* __eq__: same type, equal from_grid, equal to_grid
MN_eq(this, other) ==
    IF this.type # other.type THEN Returned(FALSE)
    ELSE IF ~HasAttrs(other, {"from_grid"}) THEN AttributeError
    ELSE IF this.from_grid # other.from_grid THEN Returned(FALSE)
    ELSE IF ~HasAttrs(other, {"to_grid"}) THEN AttributeError
    ELSE Returned(this.to_grid = other.to_grid)

\* ========================================================== WordLadderPuzzle

\* (variant: a digit among the characters)
Chars_with_digit ==
    {"a", "b", "c", "d", "e", "f", "g", "h", "i", "j", "k", "l", "m",
     "n", "o", "p", "q", "r", "s", "t", "u", "v", "w", "x", "y", "z", "0"}


\* self._chars = "abcdefghijklmnopqrstuvwxyz", as the set of its characters
Chars == {"a", "b", "c", "d", "e", "f", "g", "h", "i", "j", "k", "l", "m",
          "n", "o", "p", "q", "r", "s", "t", "u", "v", "w", "x", "y", "z"}

\* WordLadderPuzzle(from_word, to_word, ws): nothing is checked; ws is kept
\* by reference
WL_init(from_word, to_word, ws) ==
    [type |-> "WordLadderPuzzle", from_word |-> from_word,
     to_word |-> to_word, word_set |-> ws]

\* self._from_word[:i] + x + self._from_word[i+1:]
WL_subst(word, i, x) ==
    SubSeq(word, 1, i) \o <<x>> \o SubSeq(word, i + 2, Len(word))

\* (variant: the letter at position i is not taken out)
WL_letters_all(this, i) == Chars

\* set(self._chars) - set(self._from_word[i])
WL_letters(this, i) == Chars \ {this.from_word[i+1]}

\* the letters x of the comprehension at position i that pass its "if"
WL_accepted(s, this, i) ==
    {x \in WL_letters(this, i) : WL_subst(this.from_word, i, x) \in s[this.word_set]}

\* the number of candidate words one call of extensions() forms and tests
\* against the dictionary: one per letter x iterated at each position
WL_candidates(this) ==
    SumSeq([k \in 1..Len(this.from_word) |-> Cardinality(WL_letters(this, k - 1))])


\* the orders in which a set may be iterated
Orders(S) == {f \in [1..Cardinality(S) -> S] : \A a, b \in DOMAIN f : f[a] = f[b] => a = b}

\* (variant: a successor is given the receiver's word as its target)
RECURSIVE WL_from_target_lost(_, _, _)
WL_from_target_lost(s, this, i) ==
    IF i >= Len(this.from_word) THEN {<<>>}
    ELSE {[k \in 1..Len(o) |->
              WL_init(WL_subst(this.from_word, i, o[k]), this.from_word, this.word_set)]
          \o rest : o \in Orders(WL_accepted(s, this, i)),
                    rest \in WL_from_target_lost(s, this, i + 1)}


\* extensions(): position by position, the accepted candidates in the order
\* the set of letters is iterated, each made a WordLadderPuzzle with the
\* receiver's _to_word and _word_set.  The set of lists the call may return.
RECURSIVE WL_from(_, _, _)
WL_from(s, this, i) ==
    IF i >= Len(this.from_word) THEN {<<>>}
    ELSE {[k \in 1..Len(o) |->
              WL_init(WL_subst(this.from_word, i, o[k]), this.to_word, this.word_set)]
          \o rest : o \in Orders(WL_accepted(s, this, i)),
                    rest \in WL_from(s, this, i + 1)}

\* (variant: range(1, len(self._from_word)))
WL_extensions_from_1(s, this) == WL_from(s, this, 1)

WL_extensions(s, this) == WL_from(s, this, 0)

\* (variant: the words are compared without regard to case)
WL_is_solved_caseless(this) ==
    LET lower(c) == CASE c = "A" -> "a" [] c = "B" -> "b" [] c = "S" -> "s" [] OTHER -> c
        fold(w) == [k \in 1..Len(w) |-> lower(w[k])]
    IN  fold(this.from_word) = fold(this.to_word)


\* is_solved(): _from_word == _to_word
WL_is_solved(this) == this.from_word = this.to_word

\* __eq__: same type, equal _from_word, _to_word and _word_set
WL_eq(s, this, other) ==
    IF this.type # other.type THEN Returned(FALSE)
    ELSE IF ~HasAttrs(other, {"from_word"}) THEN AttributeError
    ELSE IF this.from_word # other.from_word THEN Returned(FALSE)
    ELSE IF ~HasAttrs(other, {"to_word"}) THEN AttributeError
    ELSE IF this.to_word # other.to_word THEN Returned(FALSE)
    ELSE IF ~HasAttrs(other, {"word_set"}) THEN AttributeError
    ELSE Returned(s[this.word_set] = s[other.word_set])

\* ============================================== the caller: inputs and calls

\* keep only the row objects a list of rows refers to, numbered in the order
\* they are first met (what is no longer referenced is collected)
Compact(h, refs) ==
    LET d == Cardinality(Range(refs))
    IN  [heap |-> [id \in 1..d |->
                      h[refs[CHOOSE k \in 1..Len(refs) : MemoRank(refs, k) = id]]],
         list |-> [k \in 1..Len(refs) |-> MemoRank(refs, k)]]

\* ---- peg solitaire inputs: a grid literal and a marker set
Foreign == "o"
Backgrounds == {"*", "."}

Opposite(bg) == IF bg = "*" THEN "." ELSE "*"

GridShapes == {sh \in (0..MaxRows) \X (0..MaxCols) : sh[1] = 0 => sh[2] = 0}

HoleSets(r, c) == {S \in SUBSET ((1..r) \X (1..c)) : Cardinality(S) <= MaxHoles}

\* a grid of background bg with the opposite marker on the cells of H and
\* "#" on cell u, or on the whole column u[2] when u[1] = 0 (no unused cell
\* when u is outside the grid)
GridOf(r, c, bg, H, u) ==
    [i \in 1..r |-> [j \in 1..c |->
        IF <<i, j>> = u \/ (u[1] = 0 /\ j = u[2]) THEN "#"
        ELSE IF <<i, j>> \in H THEN Opposite(bg) ELSE bg]]

PegGridsOf(r, c) ==
    {GridOf(r, c, bg, H, u) :
        bg \in Backgrounds, H \in HoleSets(r, c), u \in {<<0, 0>>, <<2, 2>>, <<0, 2>>}}

PegGrids == UNION {PegGridsOf(sh[1], sh[2]) : sh \in GridShapes}

\* row k of g without its last cell (k = 0: g itself)
Shorten(g, k) ==
    IF k = 0 \/ k > Len(g) THEN g
    ELSE [g EXCEPT ![k] = SubSeq(@, 1, Len(@) - 1)]

\* the first cell of g replaced by a marker that is none of "*", ".", "#"
Spoil(g) ==
    IF Len(g) = 0 \/ Len(g[1]) = 0 THEN g ELSE [g EXCEPT ![1][1] = Foreign]

UsedMarkers(g) == UNION {Range(g[k]) : k \in 1..Len(g)}

\* the literals and marker sets built from a grid g: as it is with the full
\* or the least marker set, and with one or two of the four defects
PegInputsOf(g) ==
    {[grid |-> g, ms |-> PegMarkers],
     [grid |-> g, ms |-> {"*"}],
     [grid |-> g, ms |-> PegMarkers \cup {Foreign}],
     [grid |-> Shorten(g, Len(g)), ms |-> PegMarkers],
     [grid |-> Shorten(g, 1), ms |-> UsedMarkers(g)],
     [grid |-> Spoil(g), ms |-> PegMarkers],
     [grid |-> Spoil(g), ms |-> PegMarkers \cup {Foreign}],
     [grid |-> Spoil(Shorten(g, Len(g))), ms |-> {"*", "."}]}

\* which rows of the literal are one list object: none, the first two, or
\* all (as in [row] * n); rows that are one object have one content
AliasChoices(g) ==
    {[k \in 1..Len(g) |-> k],
     [k \in 1..Len(g) |-> IF k = 2 THEN 1 ELSE k],
     [k \in 1..Len(g) |-> 1]}

Aliasable(g, al) == \A k \in 1..Len(g) : al[k] <= k /\ g[al[k]] = g[k]

\* ---- sliding tile inputs: two tuples of tuples

\* the grid of n rows and m columns with "*" on the cells of B; the other
\* cells hold their own number, or all "1" when dup
TileGrid(n, m, B, dup) ==
    Tuple([i \in 1..n |-> Tuple([j \in 1..m |->
        IF <<i, j>> \in B THEN "*"
        ELSE IF dup THEN "1" ELSE ToString((i - 1) * m + j)])])

ShortenTuple(g, k) ==
    IF k = 0 \/ k > Len(g.v) THEN g
    ELSE [g EXCEPT !.v[k].v = SubSeq(@, 1, Len(@) - 1)]

\* one blank on any cell; also no blank, two blanks, equal tiles, and a
\* last row one cell short
FromGridsOf(n, m) ==
    {TileGrid(n, m, {b}, FALSE) : b \in (1..n) \X (1..m)}
    \cup {TileGrid(n, m, {}, FALSE),
          TileGrid(n, m, {<<1, 1>>, <<n, m>>}, FALSE),
          TileGrid(n, m, {<<1, 1>>}, TRUE),
          ShortenTuple(TileGrid(n, m, {<<1, 1>>}, FALSE), n)}

GoalGridsOf(n, m, from_grid) ==
    {from_grid,
     TileGrid(n, m, {<<n, m>>}, FALSE),
     TileGrid(n, m, {<<1, 1>>}, TRUE),
     Tuple(<<>>),
     ShortenTuple(TileGrid(n, m, {<<1, 1>>}, FALSE), n)}

\* ---- word ladder inputs: two words and a set of words
InputChars == {"a", "b", "S"}

WordsOfLen(n) == [1..n -> InputChars]
Words == UNION {WordsOfLen(n) : n \in 0..MaxWordLen}

Differ(v, w) == Cardinality({k \in 1..Len(w) : v[k] # w[k]})

OtherChar(c) == IF c = "a" THEN "b" ELSE "a"

\* the words a dictionary is drawn from, for a given from_word: the words of
\* its length at most one character away, one word two characters away,
\* and one shorter word
NearWords(w) ==
    {v \in WordsOfLen(Len(w)) : Differ(v, w) <= 1}
    \cup (IF Len(w) >= 2
          THEN {[k \in 1..Len(w) |-> IF k <= 2 THEN OtherChar(w[k]) ELSE w[k]]}
          ELSE {})
    \cup (IF Len(w) >= 1 THEN {Tail(w)} ELSE {})

Dictionaries(w) == {D \in SUBSET NearWords(w) : Cardinality(D) <= MaxDictSize}

\* the character c in the other case
SwapCase(c) == CASE c = "a" -> "A" [] c = "b" -> "B" [] c = "S" -> "s" [] OTHER -> c

\* to_word: the word itself, another word, the word in the other case
TargetWords(w) == {w, <<"b", "a">>, [k \in 1..Len(w) |-> SwapCase(w[k])]}

\* ---- the state after the caller has built the arguments
InitPeg ==
    \E g0 \in PegGrids :
      \E in \in PegInputsOf(g0) :
        \E al \in AliasChoices(in.grid) :
          /\ Aliasable(in.grid, al)
          /\ kind = "peg"
          /\ lists = Compact(in.grid, al).heap
          /\ sets = <<in.ms>>
          /\ args = [marker |-> Compact(in.grid, al).list, marker_set |-> 1]
          /\ root = [marker |-> in.grid, marker_set |-> in.ms]

InitMN ==
    \E sh \in GridShapes :
      \E fg \in FromGridsOf(sh[1], sh[2]) :
        \E tg \in GoalGridsOf(sh[1], sh[2], fg) :
          /\ kind = "mn"
          /\ lists = <<>>
          /\ sets = <<>>
          /\ args = [from_grid |-> fg, to_grid |-> tg]
          /\ root = [from_grid |-> fg, to_grid |-> tg]

InitWL ==
    \E w \in Words :
      \E tw \in TargetWords(w) :
        \E D \in Dictionaries(w) :
          /\ kind = "wl"
          /\ lists = <<>>
          /\ sets = <<D>>
          /\ args = [from_word |-> w, to_word |-> tw, ws |-> 1]
          /\ root = [from_word |-> w, to_word |-> tw, word_set |-> D]

Init ==
    /\ (InitPeg \/ InitMN \/ InitWL)
    /\ self = NoObject
    /\ call = [op |-> "none"]
    /\ depth = 0

\* ---- construction: the instance exists only when no assertion failed
Built(new) == IF new.type = "AssertionError" THEN NoObject ELSE new

Raised(new) == IF new.type = "AssertionError" THEN "AssertionError" ELSE "None"

PegConstruct ==
    /\ kind = "peg" /\ call.op = "none"
    /\ LET new == Peg_init(lists, sets, args.marker, args.marker_set)
       IN  /\ self' = Built(new)
           /\ call' = [op |-> "init", raised |-> Raised(new)]
    /\ UNCHANGED <<root, kind, args, lists, sets, depth>>

MNConstruct ==
    /\ kind = "mn" /\ call.op = "none"
    /\ LET new == MN_init(args.from_grid, args.to_grid)
       IN  /\ self' = Built(new)
           /\ call' = [op |-> "init", raised |-> Raised(new)]
    /\ UNCHANGED <<root, kind, args, lists, sets, depth>>

WLConstruct ==
    /\ kind = "wl" /\ call.op = "none"
    /\ LET new == WL_init(args.from_word, args.to_word, args.ws)
       IN  /\ self' = Built(new)
           /\ call' = [op |-> "init", raised |-> Raised(new)]
    /\ UNCHANGED <<root, kind, args, lists, sets, depth>>

\* ---- the configuration of an object, as values (what a snapshot holds)
PegConfig(h, s, o) ==
    [marker |-> Deref(h, o.marker), marker_set |-> s[o.marker_set]]

MNConfig(o) == [from_grid |-> o.from_grid, to_grid |-> o.to_grid]

WLConfig(s, o) ==
    [from_word |-> o.from_word, to_word |-> o.to_word, word_set |-> s[o.word_set]]

\* the rows still referenced once the caller has dropped the last result
Kept(h, o) == Compact(h, o.marker).heap

\* The calls follow the search driver: on a configuration it has just built
\* or moved to it asks is_solved(), then extensions(), then compares the
\* receiver with other values or moves to one of the returned configurations.

\* ---- extensions()
PegExtensions ==
    /\ self.type = "GridPegSolitairePuzzle" /\ call.op = "is_solved"
    /\ LET h0 == Kept(lists, self)
           r  == IF Peg_indexable(h0, self) THEN Peg_extensions(h0, sets, self)
                 ELSE NoConfigs(h0)
       IN  /\ lists' = r.heap
           /\ call' = [op |-> "extensions",
                       before |-> PegConfig(h0, sets, self),
                       configs |-> r.configs,
                       raised |-> IF ~Peg_indexable(h0, self) THEN "IndexError"
                                  ELSE IF r.err THEN "AssertionError" ELSE "None"]
    /\ UNCHANGED <<root, kind, args, self, sets, depth>>

MNExtensions ==
    /\ self.type = "MNPuzzle" /\ call.op = "is_solved"
    /\ LET r == MN_extensions(self)
       IN  call' = [op |-> "extensions",
                    before |-> MNConfig(self),
                    configs |-> r.configs,
                    raised |-> r.raised]
    /\ UNCHANGED <<root, kind, args, self, lists, sets, depth>>

WLExtensions ==
    /\ self.type = "WordLadderPuzzle" /\ call.op = "is_solved"
    /\ \E r \in WL_extensions(sets, self) :
           call' = [op |-> "extensions",
                    before |-> WLConfig(sets, self),
                    configs |-> r,
                    raised |-> "None"]
    /\ UNCHANGED <<root, kind, args, self, lists, sets, depth>>

\* ---- is_solved()
PegIsSolved ==
    /\ self.type = "GridPegSolitairePuzzle" /\ call.op \in {"init", "move"}
    /\ lists' = Kept(lists, self)
    /\ call' = IF Peg_indexable(lists', self)
               THEN [op |-> "is_solved", result |-> Peg_is_solved(lists', self),
                     raised |-> "None"]
               ELSE [op |-> "is_solved", result |-> FALSE, raised |-> "IndexError"]
    /\ UNCHANGED <<root, kind, args, self, sets, depth>>

MNIsSolved ==
    /\ self.type = "MNPuzzle" /\ call.op \in {"init", "move"}
    /\ call' = [op |-> "is_solved", result |-> MN_is_solved(self), raised |-> "None"]
    /\ UNCHANGED <<root, kind, args, self, lists, sets, depth>>

WLIsSolved ==
    /\ self.type = "WordLadderPuzzle" /\ call.op \in {"init", "move"}
    /\ call' = [op |-> "is_solved", result |-> WL_is_solved(self), raised |-> "None"]
    /\ UNCHANGED <<root, kind, args, self, lists, sets, depth>>

\* ---- self == other.  The caller compares the receiver with itself, with
\* objects it builds from the receiver's configuration (equal, or changed in
\* one part), with a returned configuration, and with values of other types.
\* A comparand is the heaps holding it, the object, and its snapshot.
Snap(type, config) == [type |-> type, config |-> config]

PegSnap(h, s, o) == Snap(o.type, PegConfig(h, s, o))
MNSnap(o) == Snap(o.type, MNConfig(o))
WLSnap(s, o) == Snap(o.type, WLConfig(s, o))

AnInt == [type |-> "int", value |-> 7]
APeg == [type |-> "GridPegSolitairePuzzle", marker |-> <<1>>, marker_set |-> 1]
AnMN == MN_init(Tuple(<<Tuple(<<"*">>)>>), Tuple(<<Tuple(<<"*">>)>>))
AWL == WL_init(<<"a">>, <<"a">>, 1)

\* values that are not of the receiver's type, with their snapshots
Strangers(type) ==
    {c \in {[obj |-> AnInt, snap |-> Snap("int", [value |-> 7])],
            [obj |-> APeg, snap |-> Snap(APeg.type,
                 [marker |-> <<<<"*">>>>, marker_set |-> {"*"}])],
            [obj |-> AnMN, snap |-> MNSnap(AnMN)],
            [obj |-> AWL, snap |-> Snap(AWL.type,
                 [from_word |-> <<"a">>, to_word |-> <<"a">>, word_set |-> {}])]} :
        c.obj.type # type}

Comparand(h, s, o, snap) == [h |-> h, s |-> s, obj |-> o, snap |-> snap]

\* a peg puzzle built from a copy of the rows cp (a deepcopy result) and a
\* new set object holding ms
PegBuilt(s, cp, ms) ==
    LET s2 == Append(s, ms)
        o  == [type |-> "GridPegSolitairePuzzle",
               marker |-> cp.list, marker_set |-> Len(s2)]
    IN  Comparand(cp.heap, s2, o, PegSnap(cp.heap, s2, o))

PegComparands ==
    LET cp == deepcopy(lists, self.marker)
        ms == sets[self.marker_set]
        here == Item(lists, self.marker, 0, 0)
    IN  {Comparand(lists, sets, self, PegSnap(lists, sets, self)),
         PegBuilt(sets, cp, ms)}
        \cup {PegBuilt(sets, cp, ms2) : ms2 \in {PegMarkers, ms \cup {"#"}} \ {ms}}
        \cup (IF Len(lists[self.marker[1]]) = 0 THEN {}
              ELSE {PegBuilt(sets, [cp EXCEPT !.heap = SetItem(cp.heap, cp.list, 0, 0, x)], ms) :
                       x \in ms \ {here}})
        \cup (IF Len(self.marker) < 2 THEN {}
              ELSE {PegBuilt(sets, [cp EXCEPT !.list = SubSeq(@, 1, Len(@) - 1)], ms)})
        \cup {Comparand(lists, sets, call.configs[k],
                         PegSnap(lists, sets, call.configs[k])) :
                  k \in 1..Len(call.configs)}
        \cup {Comparand(lists, sets, c.obj, c.snap) : c \in Strangers(self.type)}

MNComparands ==
    {Comparand(lists, sets, o, MNSnap(o)) :
        o \in {self,
               [self EXCEPT !.to_grid = self.from_grid],
               [self EXCEPT !.from_grid = self.to_grid],
               [self EXCEPT !.to_grid = Tuple(<<>>)]}
              \cup Range(call.configs)}
    \cup {Comparand(lists, sets, c.obj, c.snap) : c \in Strangers(self.type)}

\* a word ladder puzzle with its own set object holding D
WLBuilt(s, from_word, to_word, D) ==
    LET s2 == Append(s, D)
        o  == WL_init(from_word, to_word, Len(s2))
    IN  Comparand(lists, s2, o, WLSnap(s2, o))

WLComparands ==
    LET D == sets[self.word_set]
    IN  {Comparand(lists, sets, self, WLSnap(sets, self)),
         WLBuilt(sets, self.from_word, self.to_word, D),
         WLBuilt(sets, self.from_word, self.to_word, D \cup {<<"z">>}),
         WLBuilt(sets, self.from_word, self.from_word \o <<"a">>, D),
         WLBuilt(sets, self.to_word \o <<"a">>, self.to_word, D)}
        \cup {Comparand(lists, sets, o, WLSnap(sets, o)) : o \in Range(call.configs)}
        \cup {Comparand(lists, sets, c.obj, c.snap) : c \in Strangers(self.type)}

Compared(this, c, outcome) ==
    [op |-> "eq", this |-> this, other |-> c.snap,
     result |-> outcome.result, raised |-> outcome.raised]

PegEq ==
    /\ self.type = "GridPegSolitairePuzzle" /\ call.op = "extensions"
    /\ \E c \in PegComparands :
         call' = Compared(PegSnap(lists, sets, self), c, Peg_eq(c.h, c.s, self, c.obj))
    /\ lists' = Kept(lists, self)
    /\ UNCHANGED <<root, kind, args, self, sets, depth>>

MNEq ==
    /\ self.type = "MNPuzzle" /\ call.op = "extensions"
    /\ \E c \in MNComparands :
         call' = Compared(MNSnap(self), c, MN_eq(self, c.obj))
    /\ UNCHANGED <<root, kind, args, self, lists, sets, depth>>

WLEq ==
    /\ self.type = "WordLadderPuzzle" /\ call.op = "extensions"
    /\ \E c \in WLComparands :
         call' = Compared(WLSnap(sets, self), c, WL_eq(c.s, self, c.obj))
    /\ UNCHANGED <<root, kind, args, self, lists, sets, depth>>

\* ---- a move of the search driver: one of the returned configurations
\* becomes the receiver; the root's arguments and the other results are
\* dropped
Move ==
    /\ call.op = "extensions" /\ call.raised = "None"
    /\ depth < MaxDepth
    /\ \E k \in 1..Len(call.configs) :
         /\ self' = IF kind = "peg"
                    THEN [call.configs[k] EXCEPT
                             !.marker = Compact(lists, call.configs[k].marker).list]
                    ELSE call.configs[k]
         /\ lists' = IF kind = "peg"
                     THEN Compact(lists, call.configs[k].marker).heap
                     ELSE lists
    /\ args' = NoObject
    /\ depth' = depth + 1
    /\ call' = [op |-> "move"]
    /\ UNCHANGED <<root, kind, sets>>

Next ==
    \/ PegConstruct \/ MNConstruct \/ WLConstruct
    \/ PegExtensions \/ MNExtensions \/ WLExtensions
    \/ PegIsSolved \/ MNIsSolved \/ WLIsSolved
    \/ PegEq \/ MNEq \/ WLEq
    \/ Move

Spec == Init /\ [][Next]_vars

\* ==================================================================== claims

AfterExtensions(k) == kind = k /\ call.op = "extensions" /\ call.raised = "None"

\* ---- peg solitaire, on grids as values: g[i][j], 1-based
Directions == {<<0, 1>>, <<0, -1>>, <<1, 0>>, <<-1, 0>>}

CellsOf(g) == {c \in (1..Len(g)) \X (1..Len(g[1])) : TRUE}

At(g, c) == g[c[1]][c[2]]

Off(c, d, n) == <<c[1] + n * d[1], c[2] + n * d[2]>>

\* a peg may jump onto the empty cell e from two cells away in direction d
JumpAt(g, e, d) ==
    /\ e \in CellsOf(g) /\ At(g, e) = "."
    /\ Off(e, d, 1) \in CellsOf(g) /\ At(g, Off(e, d, 1)) = "*"
    /\ Off(e, d, 2) \in CellsOf(g) /\ At(g, Off(e, d, 2)) = "*"

SameShape(g, s) ==
    /\ Len(s) = Len(g)
    /\ \A i \in 1..Len(g) : Len(s[i]) = Len(g[i])

\* s is g after the jump onto e from direction d: three cells change
IsJump(g, s, e, d) ==
    /\ JumpAt(g, e, d)
    /\ SameShape(g, s)
    /\ \A c \in CellsOf(g) :
         At(s, c) = IF c = e THEN "*"
                    ELSE IF c \in {Off(e, d, 1), Off(e, d, 2)} THEN "."
                    ELSE At(g, c)

SuccessorGrid(k) == Deref(lists, call.configs[k].marker)

\* C1: every successor of a peg grid has the grid's dimensions and differs
\* from it in exactly three collinear adjacent cells: an empty cell becomes a
\* peg and the two pegs next to it in one direction become empty.
C1_PegSuccessorIsOneJump ==
    AfterExtensions("peg") =>
        \A k \in 1..Len(call.configs) :
            \E e \in CellsOf(call.before.marker), d \in Directions :
                IsJump(call.before.marker, SuccessorGrid(k), e, d)

\* the rows of the receiver are distinct list objects
RowsUnshared == Cardinality(Range(self.marker)) = Len(self.marker)

\* C1 holds whenever no two rows of the receiver are one list object
C1_UnsharedRows ==
    (AfterExtensions("peg") /\ RowsUnshared) => C1_PegSuccessorIsOneJump

\* the pairs (empty cell, direction) from which a peg can jump
PegMoves(g) == {m \in CellsOf(g) \X Directions : JumpAt(g, m[1], m[2])}

\* the 5x5 grid of pegs with empty cells at (1,3), (3,2) and (4,0)
Scenario5x5 ==
    [i \in 1..5 |-> [j \in 1..5 |->
        IF <<i - 1, j - 1>> \in {<<1, 3>>, <<3, 2>>, <<4, 0>>} THEN "." ELSE "*"]]

Scenario5x5Count ==
    Len(Peg_extensions(Scenario5x5, <<PegMarkers>>,
                       Peg_init(Scenario5x5, <<PegMarkers>>, <<1, 2, 3, 4, 5>>, 1)).configs)

\* C2: the number of successors of a peg grid of any shape is the number of
\* pairs (empty cell, direction) whose two cells in that direction are in the
\* grid and hold pegs; no empty cell gives [], and the 5x5 scenario gives 7.
C2_PegOneSuccessorPerJump ==
    /\ Scenario5x5Count = 7
    /\ AfterExtensions("peg") =>
          /\ Len(call.configs) = Cardinality(PegMoves(call.before.marker))
          /\ ("." \notin UsedMarkers(call.before.marker) => call.configs = <<>>)

\* a grid with more rows than columns and a jump along a column
C2_Witness ==
    /\ AfterExtensions("peg")
    /\ Len(call.before.marker) > Len(call.before.marker[1])
    /\ \E m \in PegMoves(call.before.marker) : m[2][2] = 0
    /\ Len(call.configs) >= 1

\* ---- sliding tile, on grids as tuples of tuples: g.v[i].v[j], 1-based
TileAt(g, c) == g.v[c[1]].v[c[2]]

TileCells(g) == {c \in (1..Len(g.v)) \X (1..Len(g.v[1].v)) : TRUE}

Blanks(g) == {c \in TileCells(g) : TileAt(g, c) = "*"}

Adjacent(a, b) ==
    \/ a[1] = b[1] /\ (a[2] = b[2] + 1 \/ a[2] = b[2] - 1)
    \/ a[2] = b[2] /\ (a[1] = b[1] + 1 \/ a[1] = b[1] - 1)

\* s is g with the contents of the cells a and b exchanged
IsExchange(g, s, a, b) ==
    /\ s.t = g.t /\ Len(s.v) = Len(g.v)
    /\ \A i \in 1..Len(g.v) : s.v[i].t = g.v[i].t /\ Len(s.v[i].v) = Len(g.v[i].v)
    /\ \A c \in TileCells(g) :
         TileAt(s, c) = IF c = a THEN TileAt(g, b)
                        ELSE IF c = b THEN TileAt(g, a) ELSE TileAt(g, c)

OneBlank == Cardinality(Blanks(call.before.from_grid)) = 1

\* C3: with exactly one blank, every successor's current grid is the
\* receiver's with the blank and one orthogonally adjacent cell of the grid
\* exchanged, and its goal grid is the receiver's goal grid.
C3_TileSuccessorIsOneSlide ==
    (AfterExtensions("mn") /\ OneBlank) =>
        \A k \in 1..Len(call.configs) :
            /\ call.configs[k].to_grid = call.before.to_grid
            /\ \E b \in Blanks(call.before.from_grid), c \in TileCells(call.before.from_grid) :
                  /\ Adjacent(b, c)
                  /\ IsExchange(call.before.from_grid, call.configs[k].from_grid, b, c)

\* a blank in the interior: four slides
C3_Witness ==
    /\ AfterExtensions("mn") /\ OneBlank
    /\ Len(call.configs) = 4
    /\ call.before.to_grid # call.before.from_grid

\* where the blank is
BlankCell == CHOOSE b \in Blanks(call.before.from_grid) : TRUE
Rows == Len(call.before.from_grid.v)
Cols == Len(call.before.from_grid.v[1].v)
OnRowEdge == BlankCell[1] \in {1, Rows}
OnColEdge == BlankCell[2] \in {1, Cols}
AtCorner == OnRowEdge /\ OnColEdge
OnEdge == (OnRowEdge \/ OnColEdge) /\ ~AtCorner

\* C4 as claimed: a corner gives 2 successors, an edge cell that is no
\* corner 3, an interior cell 4, for every n x m grid.
C4_AsClaimed ==
    (AfterExtensions("mn") /\ OneBlank) =>
        Len(call.configs) = IF AtCorner THEN 2 ELSE IF OnEdge THEN 3 ELSE 4

\* C4 (amended): the claimed numbers hold when the grid has at least two
\* rows and two columns; with a single row or column a corner gives 1
\* successor (0 in a 1x1 grid) and any other cell 2.
C4_SuccessorsByPosition ==
    (AfterExtensions("mn") /\ OneBlank) =>
        /\ (Rows >= 2 /\ Cols >= 2) =>
              Len(call.configs) = IF AtCorner THEN 2 ELSE IF OnEdge THEN 3 ELSE 4
        /\ (Rows = 1 \/ Cols = 1) =>
              Len(call.configs) = IF Rows * Cols = 1 THEN 0
                                  ELSE IF AtCorner THEN 1 ELSE 2

\* a blank on an edge of a grid with at least two rows and columns
C4_Witness ==
    /\ AfterExtensions("mn") /\ OneBlank
    /\ Rows >= 2 /\ Cols >= 2 /\ OnEdge
    /\ Len(call.configs) = 3

\* ---- word ladder
SuccessorWords == {call.configs[k].from_word : k \in 1..Len(call.configs)}

\* C5: no successor's word is the receiver's word; every successor's word
\* has its length, differs from it in exactly one position, and is in the
\* dictionary.
C5_WordSuccessorIsOneChange ==
    AfterExtensions("wl") =>
        \A v \in SuccessorWords :
            /\ v # call.before.from_word
            /\ Len(v) = Len(call.before.from_word)
            /\ Differ(v, call.before.from_word) = 1
            /\ v \in call.before.word_set

\* a receiver whose own word is in the dictionary, with a successor
C5_Witness ==
    /\ AfterExtensions("wl")
    /\ call.before.from_word \in call.before.word_set
    /\ Range(call.before.from_word) \subseteq Chars
    /\ Len(call.configs) >= 1

\* the dictionary words that are word with one position replaced by a
\* lowercase letter other than the character there
OneLetterAway(word, D) ==
    {v \in D : /\ Len(v) = Len(word)
               /\ \E i \in 1..Len(word) :
                     /\ v[i] \in Chars /\ v[i] # word[i]
                     /\ \A k \in 1..Len(word) : k # i => v[k] = word[k]}

Same == <<"s", "a", "m", "e">>
SameDictionary ==
    {<<"l", "a", "m", "e">>, <<"c", "a", "m", "e">>, <<"s", "o", "m", "e">>,
     <<"w", "o", "r", "d">>, <<"l", "o", "s", "t">>}

SameLengths ==
    {Len(r) : r \in WL_extensions(<<SameDictionary>>,
                                  WL_init(Same, <<"c", "o", "s", "t">>, 1))}

\* C6: the successors' words are exactly the dictionary words one lowercase
\* letter away from the receiver's word, each once in the list; "same" with
\* {lame, came, some, word, lost} has 3 successors.
C6_WordSuccessorsAreAllChanges ==
    /\ SameLengths = {3}
    /\ AfterExtensions("wl") =>
          /\ SuccessorWords = OneLetterAway(call.before.from_word, call.before.word_set)
          /\ Len(call.configs) = Cardinality(SuccessorWords)

\* two successors at one position and one at another
C6_Witness ==
    /\ AfterExtensions("wl")
    /\ Len(call.configs) >= 2
    /\ \E v \in SuccessorWords : v[1] # call.before.from_word[1]
    /\ \E v \in call.before.word_set : v \notin SuccessorWords

\* ---- goal test of peg solitaire
PegCells(g) == {c \in CellsOf(g) : At(g, c) = "*"}

\* C7: is_solved() is true exactly when one cell of the grid holds a peg.
C7_PegSolvedIffOnePeg ==
    (kind = "peg" /\ call.op = "is_solved") =>
        (call.result <=> Cardinality(PegCells(Deref(lists, self.marker))) = 1)

\* a grid without any peg, which is not solved
C7_Witness ==
    /\ kind = "peg" /\ call.op = "is_solved"
    /\ CellsOf(Deref(lists, self.marker)) # {}
    /\ PegCells(Deref(lists, self.marker)) = {}
    /\ ~call.result

\* the receiver's configuration now
ConfigNow ==
    IF kind = "peg" THEN PegConfig(lists, sets, self)
    ELSE IF kind = "mn" THEN MNConfig(self)
    ELSE WLConfig(sets, self)

\* C8: after extensions() the receiver's configuration equals the snapshot
\* taken before the call, for each of the three kinds.
C8_ExtensionsKeepsReceiver ==
    call.op = "extensions" => ConfigNow = call.before

\* successors of a peg grid from the pass over rows and the pass over columns
C8_Witness ==
    /\ AfterExtensions("peg")
    /\ \E m1, m2 \in PegMoves(call.before.marker) : m1[2][1] = 0 /\ m2[2][2] = 0
    /\ ConfigNow = call.before

\* C9: a == b is true exactly when a and b are of the same kind and their
\* configurations match; no comparison fails.
C9_EqIffSameKindAndConfig ==
    call.op = "eq" =>
        /\ call.raised = "None"
        /\ call.result <=> (/\ call.this.type = call.other.type
                            /\ call.this.config = call.other.config)

\* a comparison of two puzzles of one kind that differ in a single part
C9_Witness ==
    /\ call.op = "eq" /\ kind = "peg"
    /\ call.this.type = call.other.type
    /\ call.this.config.marker = call.other.config.marker
    /\ call.this.config.marker_set # call.other.config.marker_set
    /\ ~call.result

\* the arguments of the peg constructor as values
ArgGrid == Deref(lists, args.marker)
ArgSet == sets[args.marker_set]

ValidRoot ==
    /\ self # NoObject
    /\ kind = "mn" => Cardinality(Blanks(root.from_grid)) = 1

\* C11: on every configuration reached from a valid root by moves, both
\* extensions() and is_solved() return: no assertion of a constructor fails
\* and nothing else is raised.
C11_MovesStayDefined ==
    (call.op \in {"is_solved", "extensions"} /\ ValidRoot) => call.raised = "None"

\* successors of a successor of a peg grid
C11_Witness ==
    /\ kind = "peg" /\ depth >= 1 /\ ValidRoot
    /\ call.op = "extensions" /\ call.raised = "None"
    /\ Len(call.configs) >= 1

\* ---- construction of sliding-tile and word-ladder puzzles

\* two rows of the tuple of tuples g differ in length
Ragged(g) == \E a, b \in 1..Len(g.v) : Len(g.v[a].v) # Len(g.v[b].v)

\* C12 as claimed: the sliding-tile and the word-ladder constructor never
\* reject their input.
C12_AsClaimed ==
    (kind \in {"mn", "wl"} /\ call.op = "init") =>
        (call.raised = "None" /\ self # NoObject)

\* C12 (amended): the word-ladder constructor accepts every input; the
\* sliding-tile constructor refuses exactly the inputs whose current grid
\* has no row or rows of unequal length, or whose goal grid has rows of
\* unequal length, and accepts every other input as it is (no blank, several
\* blanks, an empty goal, a goal of another shape).
C12_ConstructionChecksRowsOnly ==
    /\ (kind = "wl" /\ call.op = "init") =>
          /\ call.raised = "None"
          /\ self.type = "WordLadderPuzzle"
          /\ WLConfig(sets, self) = root
    /\ (kind = "mn" /\ call.op = "init") =>
          LET bad == \/ Len(root.from_grid.v) = 0
                     \/ Ragged(root.from_grid)
                     \/ Ragged(root.to_grid)
          IN  /\ bad <=> call.raised = "AssertionError"
              /\ bad <=> self = NoObject
              /\ ~bad => /\ self.type = "MNPuzzle"
                         /\ MNConfig(self) = root

\* a current grid without a blank and an empty goal grid: accepted
C12_Witness ==
    /\ kind = "mn" /\ call.op = "init"
    /\ self.type = "MNPuzzle"
    /\ Blanks(root.from_grid) = {}
    /\ root.to_grid = Tuple(<<>>)
    /\ call.raised = "None"

\* ---- sharing between the receiver and its successors

\* the mutable objects a configuration refers to: its row lists and its set
\* (tuples and strings are immutable values and have no identity here)
RowObjects(o) == IF kind = "peg" THEN Range(o.marker) ELSE {}

SetObject(o) == IF kind = "peg" THEN o.marker_set
                ELSE IF kind = "wl" THEN o.word_set ELSE 0

\* C13: after extensions() no successor refers to a list or set object that
\* the receiver or another successor refers to.
C13_NoSharedState ==
    (call.op = "extensions" /\ call.raised = "None" /\ kind \in {"peg", "wl"}) =>
        \A k \in 1..Len(call.configs) :
            /\ RowObjects(call.configs[k]) \cap RowObjects(self) = {}
            /\ SetObject(call.configs[k]) # SetObject(self)
            /\ \A l \in 1..Len(call.configs) : l # k =>
                  /\ RowObjects(call.configs[k]) \cap RowObjects(call.configs[l]) = {}
                  /\ SetObject(call.configs[k]) # SetObject(call.configs[l])

\* what does hold: the rows of a successor's grid are list objects of its own
C13_RowsAreNew ==
    AfterExtensions("peg") =>
        \A k \in 1..Len(call.configs) :
            /\ RowObjects(call.configs[k]) \cap RowObjects(self) = {}
            /\ \A l \in 1..Len(call.configs) : l # k =>
                  RowObjects(call.configs[k]) \cap RowObjects(call.configs[l]) = {}

\* ---- number of candidates of a word ladder move
WordBefore == call.before.from_word

\* C14 as claimed: whatever the characters of the receiver's word, at most
\* 25 x len(word) candidates are formed and tested, and at most that many
\* successors returned.
C14_AsClaimed ==
    AfterExtensions("wl") =>
        /\ WL_candidates(self) <= 25 * Len(WordBefore)
        /\ Len(call.configs) <= 25 * Len(WordBefore)

\* the positions of a word that hold a character other than a lowercase letter
OtherPositions(word) == {k \in 1..Len(word) : word[k] \notin Chars}

\* the word "S" with the 26 one-letter lowercase words as dictionary: the
\* number of letters accepted at its only position
CapitalScenarioCount ==
    Cardinality(WL_accepted(<<{<<c>> : c \in Chars}>>, WL_init(<<"S">>, <<"S">>, 1), 0))

\* C14 (amended): 25 candidates are formed and tested at each position
\* holding a lowercase letter and 26 at each other position, so at most
\* 26 x len(word) candidates and successors, and at most 25 x len(word) when
\* the word is made of lowercase letters; "S" has 26 successors when every
\* one-letter lowercase word is in the dictionary.
C14_CandidatesByPosition ==
    /\ CapitalScenarioCount = 26
    /\ AfterExtensions("wl") =>
          /\ WL_candidates(self) =
                25 * Len(WordBefore) + Cardinality(OtherPositions(WordBefore))
          /\ WL_candidates(self) <= 26 * Len(WordBefore)
          /\ Len(call.configs) <= WL_candidates(self)
          /\ OtherPositions(WordBefore) = {} =>
                Len(call.configs) <= 25 * Len(WordBefore)

\* a word with a capital and a lowercase letter, with a successor
C14_Witness ==
    /\ AfterExtensions("wl")
    /\ Len(WordBefore) = 2
    /\ Cardinality(OtherPositions(WordBefore)) = 1
    /\ WL_candidates(self) = 51
    /\ Len(call.configs) >= 1

\* ---- goal test of the sliding tile puzzle

\* the grids g and h have the same rows of the same lengths
SameTileShape(g, h) ==
    /\ Len(g.v) = Len(h.v)
    /\ \A i \in 1..Len(g.v) : Len(g.v[i].v) = Len(h.v[i].v)

\* g and h are equal cell by cell over the whole grid
SameCells(g, h) ==
    /\ SameTileShape(g, h)
    /\ \A i \in 1..Len(g.v) : \A j \in 1..Len(g.v[i].v) : g.v[i].v[j] = h.v[i].v[j]

\* C15: is_solved() is true exactly when the current grid equals the goal
\* grid cell by cell; grids of different shapes are not solved.
C15_TileSolvedIffSameCells ==
    (kind = "mn" /\ call.op = "is_solved") =>
        /\ call.result <=> SameCells(self.from_grid, self.to_grid)
        /\ ~SameTileShape(self.from_grid, self.to_grid) => ~call.result

\* the blank where the goal has it, another cell different: not solved
C15_Witness ==
    /\ kind = "mn" /\ call.op = "is_solved"
    /\ SameTileShape(self.from_grid, self.to_grid)
    /\ Blanks(self.from_grid) # {}
    /\ Blanks(self.from_grid) = Blanks(self.to_grid)
    /\ ~SameCells(self.from_grid, self.to_grid)
    /\ ~call.result

\* ---- goal test of the word ladder

\* the words v and w have the same characters at the same positions
SameWord(v, w) == Len(v) = Len(w) /\ \A k \in 1..Len(v) : v[k] = w[k]

\* C16: is_solved() is true exactly when the receiver's word is the target
\* word, character by character and case-sensitive, whatever the dictionary
\* holds.
C16_WordSolvedIffSameWord ==
    (kind = "wl" /\ call.op = "is_solved") =>
        (call.result <=> SameWord(self.from_word, self.to_word))

\* solved with a dictionary that does not hold the word
C16_Witness ==
    /\ kind = "wl" /\ call.op = "is_solved"
    /\ Len(self.from_word) >= 1
    /\ self.from_word \notin sets[self.word_set]
    /\ call.result

\* ---- the 1x1 sliding tile grid
SingleBlank == Tuple(<<Tuple(<<"*">>)>>)

\* C17: extensions() of a 1x1 grid whose cell holds the blank returns the
\* empty list and raises nothing.
C17_SingleCellIsDeadEnd ==
    (kind = "mn" /\ call.op = "extensions" /\ call.before.from_grid = SingleBlank) =>
        /\ call.configs = <<>>
        /\ call.raised = "None"

\* the 1x1 grid, not solved, asked for its successors
C17_Witness ==
    /\ kind = "mn" /\ call.op = "extensions"
    /\ call.before.from_grid = SingleBlank
    /\ call.before.to_grid # SingleBlank
    /\ call.configs = <<>>

\* ---- unused cells of a peg grid
UnusedCells(g) == {c \in CellsOf(g) : At(g, c) = "#"}

GridNow == Deref(lists, self.marker)

\* C18: a successor differs from the receiver in no cell that is unused in
\* the receiver, and the unused cells of every successor, and of every
\* configuration reached by moves, are those of the receiver and of the root.
C18_UnusedCellsAreInert ==
    /\ AfterExtensions("peg") =>
          \A k \in 1..Len(call.configs) :
              /\ SameShape(call.before.marker, SuccessorGrid(k))
              /\ UnusedCells(SuccessorGrid(k)) = UnusedCells(call.before.marker)
              /\ \A c \in CellsOf(call.before.marker) :
                    At(SuccessorGrid(k), c) # At(call.before.marker, c) =>
                        At(call.before.marker, c) # "#"
    /\ (kind = "peg" /\ self # NoObject) =>
          /\ SameShape(root.marker, GridNow)
          /\ UnusedCells(GridNow) = UnusedCells(root.marker)

\* successors of a configuration reached by a move on a grid with an unused
\* cell
C18_Witness ==
    /\ AfterExtensions("peg") /\ depth >= 1
    /\ UnusedCells(root.marker) # {}
    /\ Len(call.configs) >= 1
    /\ UnusedCells(GridNow) = UnusedCells(root.marker)

\* ---- sliding tile configurations reached by moves

\* how many cells of g hold the symbol x
CountOf(g, x) == Cardinality({c \in TileCells(g) : TileAt(g, c) = x})

SymbolsOf(g) == {TileAt(g, c) : c \in TileCells(g)}

\* the configuration o keeps the root's dimensions, has one blank, holds the
\* symbols of the root's current grid as often as it does, and has its goal
KeepsTileRoot(o) ==
    /\ o.n = Len(root.from_grid.v)
    /\ o.m = Len(root.from_grid.v[1].v)
    /\ SameTileShape(root.from_grid, o.from_grid)
    /\ Cardinality(Blanks(o.from_grid)) = 1
    /\ \A x \in SymbolsOf(root.from_grid) \cup SymbolsOf(o.from_grid) :
          CountOf(o.from_grid, x) = CountOf(root.from_grid, x)
    /\ o.to_grid = root.to_grid

\* C19: from a rectangular current grid with exactly one blank, every
\* configuration reached by moves, and every successor returned, has the
\* root's dimensions, exactly one blank, the root's multiset of symbols and
\* the root's goal grid.
C19_TileMovesKeepRoot ==
    (kind = "mn" /\ self # NoObject /\ Cardinality(Blanks(root.from_grid)) = 1) =>
        /\ KeepsTileRoot(self)
        /\ call.op = "extensions" =>
              \A k \in 1..Len(call.configs) : KeepsTileRoot(call.configs[k])

\* two moves away from the root, on another grid than the root's, with
\* successors
C19_Witness ==
    /\ kind = "mn" /\ depth >= 2
    /\ Cardinality(Blanks(root.from_grid)) = 1
    /\ self.from_grid # root.from_grid
    /\ call.op = "extensions" /\ Len(call.configs) >= 2
    /\ KeepsTileRoot(self)

\* ---- word ladder configurations reached by moves

\* the configuration o has a word of the length of the root's word that is
\* in the dictionary, and the root's target word and dictionary
KeepsWordRoot(o) ==
    /\ Len(o.from_word) = Len(root.from_word)
    /\ o.from_word \in sets[o.word_set]
    /\ o.to_word = root.to_word
    /\ sets[o.word_set] = root.word_set

\* C20: every configuration reached from a root by one or more moves, and
\* every successor returned, has a word of the length of the root's word
\* that is in the dictionary, and the root's target word and dictionary.
C20_WordMovesKeepRoot ==
    kind = "wl" =>
        /\ depth >= 1 => KeepsWordRoot(self)
        /\ call.op = "extensions" =>
              \A k \in 1..Len(call.configs) : KeepsWordRoot(call.configs[k])

\* two moves away from a root whose own word is not in the dictionary
C20_Witness ==
    /\ kind = "wl" /\ depth >= 2
    /\ root.from_word \notin root.word_set
    /\ Differ(self.from_word, root.from_word) = 2
    /\ root.to_word # root.from_word
    /\ KeepsWordRoot(self)

\* ---- peg solitaire moves use up pegs
EmptyCells(g) == {c \in CellsOf(g) : At(g, c) = "."}

\* the grid s has one peg fewer and one empty cell more than the grid g
OnePegFewer(g, s) ==
    /\ Cardinality(PegCells(s)) = Cardinality(PegCells(g)) - 1
    /\ Cardinality(EmptyCells(s)) = Cardinality(EmptyCells(g)) + 1

\* C21: every successor has one peg fewer and one empty cell more than the
\* receiver; a chain of moves from a grid with k >= 1 pegs has at most k - 1
\* moves, and no move sequence leads back to the grid it started from.
C21_PegMovesLoseOnePeg ==
    /\ AfterExtensions("peg") =>
          \A k \in 1..Len(call.configs) :
              OnePegFewer(call.before.marker, SuccessorGrid(k))
    /\ (kind = "peg" /\ self # NoObject /\ PegCells(root.marker) # {}) =>
          /\ depth <= Cardinality(PegCells(root.marker)) - 1
          /\ depth >= 1 => GridNow # root.marker

\* what does hold: when no two rows of the receiver are one list object,
\* every successor has one peg fewer and one empty cell more, and after d
\* moves the grid has d pegs fewer than the root
C21_UnsharedRows ==
    (kind = "peg" /\ self # NoObject /\ RowsUnshared) =>
        /\ Cardinality(PegCells(GridNow)) = Cardinality(PegCells(root.marker)) - depth
        /\ call.op = "extensions" =>
              \A k \in 1..Len(call.configs) :
                  OnePegFewer(call.before.marker, SuccessorGrid(k))

\* ---- sliding tile moves can be taken back

\* a == b for two sliding tile puzzles
TileEqual(a, b) == MN_eq(a, b).result

\* C22: with exactly one blank, no successor equals the receiver, no two
\* successors are equal, and the receiver equals one of the successors of
\* each of its successors.
C22_TileMovesReverse ==
    (AfterExtensions("mn") /\ OneBlank) =>
        \A k \in 1..Len(call.configs) :
            /\ ~TileEqual(self, call.configs[k])
            /\ \A l \in 1..Len(call.configs) :
                  l # k => ~TileEqual(call.configs[k], call.configs[l])
            /\ MN_extensions(call.configs[k]).raised = "None"
            /\ \E j \in 1..Len(MN_extensions(call.configs[k]).configs) :
                  TileEqual(self, MN_extensions(call.configs[k]).configs[j])

\* a receiver that is itself a successor, with the blank in the interior
C22_Witness ==
    /\ AfterExtensions("mn") /\ OneBlank
    /\ depth >= 1
    /\ Len(call.configs) = 4
    /\ \A k \in 1..4 : ~TileEqual(self, call.configs[k])

====
